---- MODULE Spec2Model ----
(***************************************************************************)
(* A model of BrowserStackService (src/src/services/BrowserStackService.js) *)
(* and of its entry point (src/unnamed/part_000, index.js): the walk over   *)
(* the local feature tree, the folder resolver with its paginated listing   *)
(* and settling delay, the test-case resolver and the existing-test-case    *)
(* policy.  The remote catalog is the environment: it answers one request   *)
(* at a time, lists a new folder only `lag` milliseconds after creating    *)
(* it, and may fail a request or answer without the expected object.        *)
(*                                                                         *)
(* Each await of the code is two steps: the ...Request action issues the    *)
(* call (appends it to `calls`, status "pending"), the ...Response action   *)
(* is the catalog's answer and the code that runs when the await resumes.   *)
(* Time (`now`, in milliseconds) advances only in delay(): a request is     *)
(* taken to last less than one unit, the worst case for the settling delay. *)
(***************************************************************************)
EXTENDS Integers, Sequences, FiniteSets, TLC

(* ------------------------------ bounds --------------------------------- *)
\* index.js is started at most this many times, one after the other
MaxRuns == 2
\* requests the catalog fails or answers malformed, over all runs
MaxFaults == 1
\* the catalog lists a created folder within 0..MaxLag ms of creating it
MaxLag == 2
\* FOLDER_CREATION_DELAY, when set, is 0 or MaxDelay
MaxDelay == 1
\* folders per page of the catalog's folder listing
PageSize == 1
\* pages of a scripted folder listing (SpecFolder)
MaxPages == 3

(* --------------------------- program constants -------------------------- *)
\* parentFolderId = null; `info.next || null`; a missing object
Null == 0
\* the default of FOLDER_CREATION_DELAY
DefaultDelay == 10000
\* an environment variable that is not set (process.env.X is undefined)
Unset == "unset"
\* FOLDER_CREATION_DELAY not set
UnsetDelay == -1

(* ---------------------------- the local tree ---------------------------- *)
(* Three feature directories, as fs.readdirSync / fs.statSync and the       *)
(* Gherkin parser present them.  A node is a directory or a file; a         *)
(* feature file carries feature.children, a child being a scenario          *)
(* (child.scenario is set) or something else (a Rule, a Background).        *)
(*   1: { a.feature: s1, <rule>, s2 }                                       *)
(*   3: { d1: { a.feature: s1 }, d2: { a.feature: s1 }, notes.txt }         *)
(*   9: { d1: { d2: { b.feature: s1, s1 } } }                               *)
Scn(n) == [scenario |-> TRUE, name |-> n]
Other == [scenario |-> FALSE, name |-> ""]
Dir(n, es) == [name |-> n, isDirectory |-> TRUE, entries |-> es, children |-> <<>>]
File(n, cs) == [name |-> n, isDirectory |-> FALSE, entries |-> <<>>, children |-> cs]
Nodes ==
  <<Dir("features", <<2>>),
    File("a.feature", <<Scn("s1"), Other, Scn("s2")>>),
    Dir("features", <<4, 6, 8>>),
    Dir("d1", <<5>>),
    File("a.feature", <<Scn("s1")>>),
    Dir("d2", <<7>>),
    File("a.feature", <<Scn("s1")>>),
    File("notes.txt", <<>>),
    Dir("features", <<10>>),
    Dir("d1", <<11>>),
    Dir("d2", <<12>>),
    File("b.feature", <<Scn("s1"), Scn("s1")>>)>>
Roots == {1, 3, 9}
\* the trees with a document a.feature
RootsWithAFeature == {1, 3}
\* file.endsWith('.feature')
EndsWithFeature(name) == name \in {"a.feature", "b.feature"}

(* ------------------------------ the state ------------------------------- *)
VARIABLES
  env,         \* process.env: option, template, preserve, delay
  tree,        \* the root node of the features directory
  lag,         \* ms after which the catalog lists a folder it created
  script,      \* a scripted folder listing (SpecFolder), <<>> in Spec
  folders,     \* the catalog's folders: id, name, parent_id, visibleAt
  testCases,   \* the catalog's test cases: identifier, title, template, folder_id
  nextTestCaseId,
  now,         \* the clock, ms
  run,         \* the number of the current run of index.js
  pc,          \* where the single thread of control stands
  stack,       \* traverseDirectory's activations: dir, i, parentFolderId
  gf,          \* getOrCreateFolder / fetchAllFolders locals
  doc,         \* processGherkinDocument locals
  tc,          \* getOrCreateTestCase / handleExistingTestCase locals
  calls,       \* every remote request issued, in order, with its outcome
  folderCalls, \* every getOrCreateFolder activation, in order
  tcCalls,     \* every getOrCreateTestCase activation, in order
  faults,      \* requests failed or answered malformed so far
  error,       \* the error traverseDirectory ended with, "" if none
  scenario,    \* the scenario handed to uploadPickleScenario (SpecPayload)
  payload      \* the request body built for it (SpecPayload)

vars == <<env, tree, lag, script, folders, testCases, nextTestCaseId, now, run,
          pc, stack, gf, doc, tc, calls, folderCalls, tcCalls, faults, error,
          scenario, payload>>

(* --------------------------- configuration ------------------------------ *)
\* [variant] the default policy is update: process.env.EXISTING_TEST_CASE_OPTION || 'update'
UserOption_DefaultUpdate == IF env.option = Unset THEN "update" ELSE env.option
\* process.env.EXISTING_TEST_CASE_OPTION || 'skip'
UserOption == IF env.option = Unset THEN "skip" ELSE env.option
\* process.env.TEST_CASE_TEMPLATE || 'bdd'
TestCaseTemplate == IF env.template = Unset THEN "bdd" ELSE env.template
\* [variant] the structure is preserved whatever the variable says
PreserveDirStructure_Always == TRUE
\* process.env.PRESERVE_DIRECTORY_STRUCTURE === 'true'
PreserveDirStructure == env.preserve = "true"
\* parseInt(process.env.FOLDER_CREATION_DELAY || '10000', 10)
FolderCreationDelay == IF env.delay = UnsetDelay THEN DefaultDelay ELSE env.delay

\* the configurations explored: the three policies with the BDD template,
\* update with the steps template, nothing set, an unknown policy, an unknown
\* template
Policies ==
  {[option |-> o, template |-> "bdd"] : o \in {"skip", "update", "delete"}}
  \cup {[option |-> "update", template |-> "steps"],
        [option |-> Unset, template |-> Unset],
        [option |-> "replace", template |-> "bdd"],
        [option |-> "skip", template |-> "gherkin"]}
Envs ==
  {[option |-> p.option, template |-> p.template, preserve |-> d, delay |-> w] :
     p \in Policies, d \in {"true", Unset}, w \in {UnsetDelay, 0, MaxDelay}}
\* a tree without subdirectories is walked the same way in both modes
HasSubdirectory(root) ==
  \E e \in 1..Len(Nodes[root].entries) : Nodes[Nodes[root].entries[e]].isDirectory

\* no scenario is being built (Spec, SpecFolder); no body was built yet
NoScenario == [name |-> <<>>, steps |-> <<>>]
NoPayload == [k \in {} |-> <<>>]

(* ----------------------------- the catalog ------------------------------ *)
NoTestCase == [identifier |-> Null, title |-> "", template |-> "", folder_id |-> Null]

\* the catalogs a run may start from: empty, or two root folders (one per
\* listing page) with a BDD test case "s1" in the second
Catalogs ==
  {[folders |-> <<>>, testCases |-> <<>>],
   [folders |-> <<[id |-> 1, name |-> "z.feature", parent_id |-> Null, visibleAt |-> 0],
                  [id |-> 2, name |-> "a.feature", parent_id |-> Null, visibleAt |-> 0]>>,
    testCases |-> <<[identifier |-> 1, title |-> "s1", template |-> "test_case_bdd",
                     folder_id |-> 2]>>]}

Min(a, b) == IF a < b THEN a ELSE b
\* a folder as a listing or a create response carries it
AsJson(f) == [id |-> f.id, name |-> f.name, parent_id |-> f.parent_id]
MapJson(fs) == [i \in 1..Len(fs) |-> AsJson(fs[i])]
\* the folders under `parent` the listing shows by now, oldest first
Listed(parent) == SelectSeq(folders, LAMBDA f : f.parent_id = parent /\ f.visibleAt <= now)
NumPages(parent) ==
  IF Len(Listed(parent)) = 0 THEN 1 ELSE (Len(Listed(parent)) + PageSize - 1) \div PageSize
\* GET .../folders?p=page and GET .../folders/{parent}/sub-folders?p=page:
\* response.data, with hasFolders for the presence of data.folders
FolderPage(parent, page) ==
  IF script # <<>> THEN script[page]
  ELSE [hasFolders |-> TRUE,
        folders |-> MapJson(SubSeq(Listed(parent), (page - 1) * PageSize + 1,
                                   Min(page * PageSize, Len(Listed(parent))))),
        next |-> IF page < NumPages(parent) THEN page + 1 ELSE Null]
\* GET .../test-cases?folder_id=f: response.data.test_cases
TestCasesIn(f) == SelectSeq(testCases, LAMBDA t : t.folder_id = f)

(* ------------------------------ requests -------------------------------- *)
\* one remote request: the method, the resource, the identifier in its URL
\* or body (parent folder, folder, test case), the name in its body, the
\* page asked for; `of` is the resolver activation that issued it
Request(method, resource, id, name, template, page, of) ==
  [method |-> method, resource |-> resource, id |-> id, name |-> name,
   template |-> template, page |-> page, of |-> of, run |-> run, status |-> "pending"]
Issue(r) == calls' = Append(calls, r)
\* the answer to the request awaited, which is the last one issued
Answer(status) == calls' = [calls EXCEPT ![Len(calls)].status = status]
\* what the catalog may do with a request besides serving it
MayFault == faults < MaxFaults

\* [variant] the walker catches the error of an entry, logs it and goes on
\* with the next entry
ThrowError_Continue(msg) ==
  /\ pc' = "walk"
  /\ error' = msg
  /\ stack' = stack
\* an error thrown: every catch on the way logs and rethrows, index.js logs
ThrowError(msg) ==
  /\ pc' = "failed"
  /\ error' = msg
  /\ stack' = <<>>

(* -------------------------- traverseDirectory --------------------------- *)
NoGf == [name |-> "", parent |-> Null, cont |-> "", node |-> 0, nextPage |-> Null,
         folders |-> <<>>, id |-> Null]
NoDoc == [node |-> 0, folderId |-> Null, k |-> 0]
NoTc == [folderId |-> Null, name |-> "", existing |-> NoTestCase]

Top == stack[Len(stack)]
Entry == Nodes[Top.dir].entries[Top.i]
Advanced == [stack EXCEPT ![Len(stack)].i = @ + 1]

\* the record of one getOrCreateFolder activation: its arguments, and what
\* became of it (the identifier returned, whether it created the folder,
\* whether a listing page came without its collection, and the clock at
\* its entry, at the create response and at its return, and the number of
\* requests of the program issued by the time it returned)
NewFolderCall(folderName, parentFolderId, cont) ==
  [name |-> folderName, parent |-> parentFolderId, run |-> run, cont |-> cont,
   id |-> Null, created |-> FALSE, returned |-> FALSE, truncated |-> FALSE,
   calledAt |-> now, createdAt |-> 0, returnedAt |-> 0, requests |-> 0]

\* getOrCreateFolder(folderName, parentFolderId) is entered: fetchAllFolders
\* starts with folders = [] and nextPage = 1
EnterGetOrCreateFolder(folderName, parentFolderId, cont, node) ==
  /\ gf' = [NoGf EXCEPT !.name = folderName, !.parent = parentFolderId, !.cont = cont,
                        !.node = node, !.nextPage = 1]
  /\ folderCalls' = Append(folderCalls, NewFolderCall(folderName, parentFolderId, cont))
  /\ pc' = "fetch"

\* the for loop is over: the activation returns to its caller, the last one
\* to index.js
TraverseReturn ==
  /\ pc = "walk"
  /\ Top.i > Len(Nodes[Top.dir].entries)
  /\ stack' = SubSeq(stack, 1, Len(stack) - 1)
  /\ pc' = IF Len(stack) = 1 THEN "done" ELSE "walk"
  /\ UNCHANGED <<scenario, payload, env, tree, lag, script, folders, testCases, nextTestCaseId, now, run,
                 gf, doc, tc, calls, folderCalls, tcCalls, faults, error>>

\* stat.isDirectory(): with PRESERVE_DIRECTORY_STRUCTURE the folder of the
\* directory is resolved first, otherwise the recursion keeps the parent
TraverseSubdirectory ==
  /\ pc = "walk"
  /\ Top.i <= Len(Nodes[Top.dir].entries)
  /\ Nodes[Entry].isDirectory
  /\ IF PreserveDirStructure
     THEN /\ EnterGetOrCreateFolder(Nodes[Entry].name, Top.parent, "dir", Entry)
          /\ stack' = Advanced
     ELSE /\ stack' = Append(Advanced, [dir |-> Entry, i |-> 1, parent |-> Top.parent])
          /\ UNCHANGED <<gf, folderCalls, pc>>
  /\ UNCHANGED <<scenario, payload, env, tree, lag, script, folders, testCases, nextTestCaseId, now, run,
                 doc, tc, calls, tcCalls, faults, error>>

\* file.endsWith('.feature'): processFeatureFile, then processGherkinDocument
\* resolves the folder named after the file (path.basename) under the parent
TraverseFeatureFile ==
  /\ pc = "walk"
  /\ Top.i <= Len(Nodes[Top.dir].entries)
  /\ ~Nodes[Entry].isDirectory
  /\ EndsWithFeature(Nodes[Entry].name)
  /\ EnterGetOrCreateFolder(Nodes[Entry].name, Top.parent, "doc", Entry)
  /\ stack' = Advanced
  /\ UNCHANGED <<scenario, payload, env, tree, lag, script, folders, testCases, nextTestCaseId, now, run,
                 doc, tc, calls, tcCalls, faults, error>>

\* any other file is passed over
TraverseOtherFile ==
  /\ pc = "walk"
  /\ Top.i <= Len(Nodes[Top.dir].entries)
  /\ ~Nodes[Entry].isDirectory
  /\ ~EndsWithFeature(Nodes[Entry].name)
  /\ stack' = Advanced
  /\ UNCHANGED <<scenario, payload, env, tree, lag, script, folders, testCases, nextTestCaseId, now, run,
                 pc, gf, doc, tc, calls, folderCalls, tcCalls, faults, error>>

(* ---------------------- fetchAllFolders, the loop ----------------------- *)
\* [variant] the page and the one after it are requested together, the
\* second without waiting for the first
FetchFoldersRequest_Prefetch ==
  /\ pc = "fetch"
  /\ gf.nextPage # Null
  /\ calls' = calls \o
       <<Request("GET", "folders", gf.parent, "", "", gf.nextPage + 1, Len(folderCalls)),
         Request("GET", "folders", gf.parent, "", "", gf.nextPage, Len(folderCalls))>>
  /\ pc' = "fetching"
  /\ UNCHANGED <<scenario, payload, env, tree, lag, script, folders, testCases, nextTestCaseId, now, run,
                 stack, gf, doc, tc, folderCalls, tcCalls, faults, error>>
\* while (nextPage): the GET of the page, under the parent or at the root
FetchFoldersRequest ==
  /\ pc = "fetch"
  /\ gf.nextPage # Null
  /\ Issue(Request("GET", "folders", gf.parent, "", "", gf.nextPage, Len(folderCalls)))
  /\ pc' = "fetching"
  /\ UNCHANGED <<scenario, payload, env, tree, lag, script, folders, testCases, nextTestCaseId, now, run,
                 stack, gf, doc, tc, folderCalls, tcCalls, faults, error>>

\* [variant] the cursor is dropped: only the first page is ever read
AfterPage_FirstPageOnly(g, data) ==
  IF data.hasFolders
  THEN [g EXCEPT !.folders = g.folders \o data.folders, !.nextPage = Null]
  ELSE [g EXCEPT !.nextPage = Null]
\* [variant] an empty collection ends the loop too: the test is on folders.length
AfterPage_EmptyStops(g, data) ==
  IF data.hasFolders /\ data.folders # <<>>
  THEN [g EXCEPT !.folders = g.folders \o data.folders, !.nextPage = data.next]
  ELSE [g EXCEPT !.nextPage = Null]
\* if (response.data && response.data.folders) { concat; nextPage = info?.next || null }
\* else break: the locals after one page
AfterPage(g, data) ==
  IF data.hasFolders
  THEN [g EXCEPT !.folders = g.folders \o data.folders, !.nextPage = data.next]
  ELSE [g EXCEPT !.nextPage = Null]

\* a response without data.folders
NoCollection == [hasFolders |-> FALSE, folders |-> <<>>, next |-> Null]

\* the page arrives
FetchFoldersPage(data, status) ==
  /\ Answer(status)
  /\ gf' = AfterPage(gf, data)
  /\ folderCalls' = [folderCalls EXCEPT ![Len(folderCalls)].truncated = @ \/ ~data.hasFolders]
  /\ pc' = IF AfterPage(gf, data).nextPage # Null THEN "fetch" ELSE "find"
  /\ UNCHANGED <<stack, error>>

FetchFoldersResponse ==
  /\ pc = "fetching"
  /\ \/ /\ FetchFoldersPage(FolderPage(gf.parent, gf.nextPage), "ok")
        /\ UNCHANGED faults
     \/ /\ MayFault
        /\ FetchFoldersPage(NoCollection, "malformed")
        /\ faults' = faults + 1
     \/ /\ MayFault
        /\ Answer("fail")
        /\ ThrowError("transport")
        /\ faults' = faults + 1
        /\ UNCHANGED <<gf, folderCalls>>
  /\ UNCHANGED <<scenario, payload, env, tree, lag, script, folders, testCases, nextTestCaseId, now, run,
                 doc, tc, tcCalls>>

(* --------------------------- getOrCreateFolder -------------------------- *)
NoFolder == [id |-> Null, name |-> "", parent_id |-> Null]
\* [variant] the search compares the name only
FindFolder_AnyParent(fs, folderName, parentFolderId) ==
  LET hits == SelectSeq(fs, LAMBDA f : f.name = folderName)
  IN  IF hits = <<>> THEN NoFolder ELSE Head(hits)
\* folders.find(folder => folder.name === folderName && folder.parent_id === parentFolderId)
FindFolder(fs, folderName, parentFolderId) ==
  LET hits == SelectSeq(fs, LAMBDA f : f.name = folderName /\ f.parent_id = parentFolderId)
  IN  IF hits = <<>> THEN NoFolder ELSE Head(hits)

\* the listing is complete: the folder found is returned, otherwise the POST
\* that creates it is issued
FindOrCreateFolder ==
  /\ pc = "find"
  /\ LET existingFolder == FindFolder(gf.folders, gf.name, gf.parent)
     IN  IF existingFolder # NoFolder
         THEN /\ gf' = [gf EXCEPT !.id = existingFolder.id]
              /\ pc' = "return"
              /\ UNCHANGED calls
         ELSE /\ Issue(Request("POST", "folders", gf.parent, gf.name, "", 0, Len(folderCalls)))
              /\ pc' = "creating"
              /\ UNCHANGED gf
  /\ UNCHANGED <<scenario, payload, env, tree, lag, script, folders, testCases, nextTestCaseId, now, run,
                 stack, doc, tc, folderCalls, tcCalls, faults, error>>

\* [variant] the create response is not checked for data.folder: the wait
\* and the return follow whatever came back
CreateFolderResponse_Unchecked ==
  /\ pc = "creating"
  /\ \/ /\ Answer("ok")
        /\ folders' = Append(folders, [id |-> Len(folders) + 1, name |-> gf.name,
                                       parent_id |-> gf.parent, visibleAt |-> now + lag])
        /\ gf' = [gf EXCEPT !.id = Len(folders) + 1]
        /\ folderCalls' = [folderCalls EXCEPT ![Len(folderCalls)].created = TRUE,
                                              ![Len(folderCalls)].createdAt = now]
        /\ pc' = "delay"
        /\ UNCHANGED <<faults, stack, error>>
     \/ /\ MayFault
        /\ Answer("malformed")
        /\ pc' = "delay"
        /\ faults' = faults + 1
        /\ UNCHANGED <<folders, gf, folderCalls, stack, error>>
     \/ /\ MayFault
        /\ Answer("fail")
        /\ ThrowError("transport")
        /\ faults' = faults + 1
        /\ UNCHANGED <<folders, gf, folderCalls>>
  /\ UNCHANGED <<scenario, payload, env, tree, lag, script, testCases, nextTestCaseId, now, run,
                 doc, tc, tcCalls>>
\* the catalog creates the folder and lists it from now + lag on; a response
\* without data.folder, or a failed request, throws (nothing was created)
CreateFolderResponse ==
  /\ pc = "creating"
  /\ \/ /\ Answer("ok")
        /\ folders' = Append(folders, [id |-> Len(folders) + 1, name |-> gf.name,
                                       parent_id |-> gf.parent, visibleAt |-> now + lag])
        /\ gf' = [gf EXCEPT !.id = Len(folders) + 1]
        /\ folderCalls' = [folderCalls EXCEPT ![Len(folderCalls)].created = TRUE,
                                              ![Len(folderCalls)].createdAt = now]
        /\ pc' = "delay"
        /\ UNCHANGED <<faults, stack, error>>
     \/ /\ MayFault
        /\ Answer("malformed")
        /\ ThrowError("Failed to create folder")
        /\ faults' = faults + 1
        /\ UNCHANGED <<folders, gf, folderCalls>>
     \/ /\ MayFault
        /\ Answer("fail")
        /\ ThrowError("transport")
        /\ faults' = faults + 1
        /\ UNCHANGED <<folders, gf, folderCalls>>
  /\ UNCHANGED <<scenario, payload, env, tree, lag, script, testCases, nextTestCaseId, now, run,
                 doc, tc, tcCalls>>

\* [variant] the promise resolves at once: setTimeout(resolve(), ms)
delay_NoWait(ms) == now
\* delay(ms): the clock when the promise of setTimeout(resolve, ms) resolves
delay(ms) == now + ms

\* [variant] the timer is never armed and the promise never settles:
\* new Promise(resolve => {})
Delay_Never ==
  /\ pc = "delay"
  /\ UNCHANGED vars

\* await this.delay(this.folderCreationDelay)
Delay ==
  /\ pc = "delay"
  /\ now' = delay(FolderCreationDelay)
  /\ pc' = "return"
  /\ UNCHANGED <<scenario, payload, env, tree, lag, script, folders, testCases, nextTestCaseId, run,
                 stack, gf, doc, tc, calls, folderCalls, tcCalls, faults, error>>

\* [variant] the recursion into the directory keeps the parent it had:
\* traverseDirectory(fullPath, parentFolderId)
ReturnFolder_KeepParent ==
  /\ pc = "return"
  /\ folderCalls' = [folderCalls EXCEPT ![Len(folderCalls)].id = gf.id,
                                        ![Len(folderCalls)].returned = TRUE,
                                        ![Len(folderCalls)].returnedAt = now,
                                        ![Len(folderCalls)].requests = Len(calls)]
  /\ gf' = NoGf
  /\ CASE gf.cont = "dir" ->
            /\ stack' = Append(stack, [dir |-> gf.node, i |-> 1, parent |-> Top.parent])
            /\ pc' = "walk"
            /\ UNCHANGED doc
       [] gf.cont = "doc" ->
            /\ doc' = [node |-> gf.node, folderId |-> gf.id, k |-> 1]
            /\ pc' = "scenario"
            /\ UNCHANGED stack
       [] OTHER ->
            /\ pc' = "done"
            /\ UNCHANGED <<stack, doc>>
  /\ UNCHANGED <<scenario, payload, env, tree, lag, script, folders, testCases, nextTestCaseId, now, run,
                 tc, calls, tcCalls, faults, error>>
\* the identifier is returned: to traverseDirectory, which recurses into the
\* directory with it as the parent, to processGherkinDocument, which starts
\* its loop over feature.children, or to the caller of a single call
ReturnFolder ==
  /\ pc = "return"
  /\ folderCalls' = [folderCalls EXCEPT ![Len(folderCalls)].id = gf.id,
                                        ![Len(folderCalls)].returned = TRUE,
                                        ![Len(folderCalls)].returnedAt = now,
                                        ![Len(folderCalls)].requests = Len(calls)]
  /\ gf' = NoGf
  /\ CASE gf.cont = "dir" ->
            /\ stack' = Append(stack, [dir |-> gf.node, i |-> 1, parent |-> gf.id])
            /\ pc' = "walk"
            /\ UNCHANGED doc
       [] gf.cont = "doc" ->
            /\ doc' = [node |-> gf.node, folderId |-> gf.id, k |-> 1]
            /\ pc' = "scenario"
            /\ UNCHANGED stack
       [] OTHER ->
            /\ pc' = "done"
            /\ UNCHANGED <<stack, doc>>
  /\ UNCHANGED <<scenario, payload, env, tree, lag, script, folders, testCases, nextTestCaseId, now, run,
                 tc, calls, tcCalls, faults, error>>

(* ------------------------- processGherkinDocument ----------------------- *)
\* [variant] only the first child of the feature is processed
Children_FirstOnly == SubSeq(Nodes[doc.node].children, 1, 1)
\* feature.children
Children == Nodes[doc.node].children
Child == Children[doc.k]

\* the record of one getOrCreateTestCase activation: its arguments, the
\* test cases its lookup was answered with, and the one found among them
\* (NoTestCase if none, or not answered yet)
NewTestCaseCall(folderId, scenarioName) ==
  [folderId |-> folderId, name |-> scenarioName, run |-> run, answered |-> FALSE,
   listed |-> <<>>, existing |-> NoTestCase]

\* for (const scenario of feature.children) is over
DocumentDone ==
  /\ pc = "scenario"
  /\ doc.k > Len(Children)
  /\ doc' = NoDoc
  /\ pc' = "walk"
  /\ UNCHANGED <<scenario, payload, env, tree, lag, script, folders, testCases, nextTestCaseId, now, run,
                 stack, gf, tc, calls, folderCalls, tcCalls, faults, error>>

\* a child that is no scenario is passed over
SkipChild ==
  /\ pc = "scenario"
  /\ doc.k <= Len(Children)
  /\ ~Child.scenario
  /\ doc' = [doc EXCEPT !.k = @ + 1]
  /\ UNCHANGED <<scenario, payload, env, tree, lag, script, folders, testCases, nextTestCaseId, now, run,
                 pc, stack, gf, tc, calls, folderCalls, tcCalls, faults, error>>

\* template: 'test_case_steps' in createTestCaseWithSteps, 'test_case_bdd' in
\* createBDDTestCase
PayloadTemplate == IF TestCaseTemplate = "steps" THEN "test_case_steps" ELSE "test_case_bdd"

\* [variant] the scenario is uploaded under the document's parent folder
ScenarioFolder_Parent == Top.parent
\* uploadPickleScenario(filePath, feature.name, scenario.scenario, featureFolderId)
ScenarioFolder == doc.folderId

\* uploadPickleScenario: with a known template the scenario goes to
\* getOrCreateTestCase, which lists the folder's test cases; any other
\* template throws
UploadPickleScenario ==
  /\ pc = "scenario"
  /\ doc.k <= Len(Children)
  /\ Child.scenario
  /\ doc' = [doc EXCEPT !.k = @ + 1]
  /\ IF TestCaseTemplate \in {"steps", "bdd"}
     THEN /\ tc' = [folderId |-> ScenarioFolder, name |-> Child.name, existing |-> NoTestCase]
          /\ tcCalls' = Append(tcCalls, NewTestCaseCall(ScenarioFolder, Child.name))
          /\ Issue(Request("GET", "test-cases", ScenarioFolder, "", "", 0, Len(tcCalls) + 1))
          /\ pc' = "listing"
          /\ UNCHANGED <<stack, error>>
     ELSE /\ ThrowError("Invalid TEST_CASE_TEMPLATE value")
          /\ UNCHANGED <<tc, tcCalls, calls>>
  /\ UNCHANGED <<scenario, payload, env, tree, lag, script, folders, testCases, nextTestCaseId, now, run,
                 gf, folderCalls, faults>>

(* --------------------------- getOrCreateTestCase ------------------------ *)
\* [variant] the search compares tc.name, which no listed test case has
FindTestCase_ByName(list, scenarioName) == NoTestCase
\* [variant] the first listed test case is taken, whatever its title
FindTestCase_AnyTitle(list, scenarioName) ==
  IF list = <<>> THEN NoTestCase ELSE Head(list)
\* response.data?.test_cases?.find(tc => tc.title === scenarioName)
FindTestCase(list, scenarioName) ==
  LET hits == SelectSeq(list, LAMBDA t : t.title = scenarioName)
  IN  IF hits = <<>> THEN NoTestCase ELSE Head(hits)

\* the listing arrives and is searched
Looked(list, status) ==
  /\ Answer(status)
  /\ tc' = [tc EXCEPT !.existing = FindTestCase(list, tc.name)]
  /\ tcCalls' = [tcCalls EXCEPT ![Len(tcCalls)].answered = TRUE,
                                ![Len(tcCalls)].listed = list,
                                ![Len(tcCalls)].existing = FindTestCase(list, tc.name)]
  /\ pc' = IF FindTestCase(list, tc.name) # NoTestCase THEN "existing" ELSE "create"
  /\ UNCHANGED <<stack, error>>

\* a response without data.test_cases finds nothing
ListTestCasesResponse ==
  /\ pc = "listing"
  /\ \/ /\ Looked(TestCasesIn(tc.folderId), "ok")
        /\ UNCHANGED faults
     \/ /\ MayFault
        /\ Looked(<<>>, "malformed")
        /\ faults' = faults + 1
     \/ /\ MayFault
        /\ Answer("fail")
        /\ ThrowError("transport")
        /\ faults' = faults + 1
        /\ UNCHANGED <<tc, tcCalls>>
  /\ UNCHANGED <<scenario, payload, env, tree, lag, script, folders, testCases, nextTestCaseId, now, run,
                 gf, doc, folderCalls>>

\* no test case of that title: the payload is built and POSTed to the folder
CreateTestCaseRequest ==
  /\ pc = "create"
  /\ Issue(Request("POST", "test-cases", tc.folderId, tc.name, PayloadTemplate, 0, Len(tcCalls)))
  /\ pc' = "posting"
  /\ UNCHANGED <<scenario, payload, env, tree, lag, script, folders, testCases, nextTestCaseId, now, run,
                 stack, gf, doc, tc, folderCalls, tcCalls, faults, error>>

\* POST .../folders/{f}/test-cases served: the catalog adds the test case
Created(r) ==
  /\ testCases' = Append(testCases, [identifier |-> nextTestCaseId, title |-> r.name,
                                     template |-> r.template, folder_id |-> r.id])
  /\ nextTestCaseId' = nextTestCaseId + 1

\* [variant] the response is not checked for data.data.test_case
PostResponse_Unchecked(msg) ==
  \/ /\ Answer("ok")
     /\ Created(calls[Len(calls)])
     /\ tc' = NoTc
     /\ pc' = "scenario"
     /\ UNCHANGED <<faults, stack, error>>
  \/ /\ MayFault
     /\ Answer("malformed")
     /\ tc' = NoTc
     /\ pc' = "scenario"
     /\ faults' = faults + 1
     /\ UNCHANGED <<testCases, nextTestCaseId, stack, error>>
  \/ /\ MayFault
     /\ Answer("fail")
     /\ ThrowError("transport")
     /\ faults' = faults + 1
     /\ UNCHANGED <<testCases, nextTestCaseId, tc>>
\* the answer to a POST of a test case: created, or a response without
\* data.data.test_case (msg is thrown), or a failed request
PostResponse(msg) ==
  \/ /\ Answer("ok")
     /\ Created(calls[Len(calls)])
     /\ tc' = NoTc
     /\ pc' = "scenario"
     /\ UNCHANGED <<faults, stack, error>>
  \/ /\ MayFault
     /\ Answer("malformed")
     /\ ThrowError(msg)
     /\ faults' = faults + 1
     /\ UNCHANGED <<testCases, nextTestCaseId, tc>>
  \/ /\ MayFault
     /\ Answer("fail")
     /\ ThrowError("transport")
     /\ faults' = faults + 1
     /\ UNCHANGED <<testCases, nextTestCaseId, tc>>

CreateTestCaseResponse ==
  /\ pc = "posting"
  /\ PostResponse("Failed to create test case")
  /\ UNCHANGED <<scenario, payload, env, tree, lag, script, folders, now, run, gf, doc, folderCalls, tcCalls>>

(* -------------------------- handleExistingTestCase ---------------------- *)
\* userOption === 'skip': return
HandleExistingSkip ==
  /\ pc = "existing"
  /\ UserOption = "skip"
  /\ tc' = NoTc
  /\ pc' = "scenario"
  /\ UNCHANGED <<scenario, payload, env, tree, lag, script, folders, testCases, nextTestCaseId, now, run,
                 stack, gf, doc, calls, folderCalls, tcCalls, faults, error>>

\* [variant] the two tags are swapped
ExpectedTemplate_Swapped == IF TestCaseTemplate = "bdd" THEN "test_case_steps" ELSE "test_case_bdd"
\* testCaseTemplate === 'bdd' ? 'test_case_bdd' : 'test_case_steps'
ExpectedTemplate == IF TestCaseTemplate = "bdd" THEN "test_case_bdd" ELSE "test_case_steps"

\* userOption === 'update': a template mismatch warns and returns, otherwise
\* updateTestCase PATCHes the existing test case
HandleExistingUpdate ==
  /\ pc = "existing"
  /\ UserOption = "update"
  /\ IF tc.existing.template # ExpectedTemplate
     THEN /\ tc' = NoTc
          /\ pc' = "scenario"
          /\ UNCHANGED calls
     ELSE /\ Issue(Request("PATCH", "test-cases", tc.existing.identifier, tc.name,
                           PayloadTemplate, 0, Len(tcCalls)))
          /\ pc' = "patching"
          /\ UNCHANGED tc
  /\ UNCHANGED <<scenario, payload, env, tree, lag, script, folders, testCases, nextTestCaseId, now, run,
                 stack, gf, doc, folderCalls, tcCalls, faults, error>>

\* [variant] the catalog serves the PATCH by dropping the test case
Patched_Removed(r) == SelectSeq(testCases, LAMBDA t : t.identifier # r.id)
\* PATCH .../test-cases/{id} served: the test case takes the payload's fields
Patched(r) ==
  [i \in 1..Len(testCases) |->
     IF testCases[i].identifier = r.id
     THEN [testCases[i] EXCEPT !.title = r.name, !.template = r.template]
     ELSE testCases[i]]

UpdateTestCaseResponse ==
  /\ pc = "patching"
  /\ \/ /\ Answer("ok")
        /\ testCases' = Patched(calls[Len(calls)])
        /\ tc' = NoTc
        /\ pc' = "scenario"
        /\ UNCHANGED <<faults, stack, error>>
     \/ /\ MayFault
        /\ Answer("fail")
        /\ ThrowError("transport")
        /\ faults' = faults + 1
        /\ UNCHANGED <<testCases, tc>>
  /\ UNCHANGED <<scenario, payload, env, tree, lag, script, folders, nextTestCaseId, now, run,
                 gf, doc, folderCalls, tcCalls>>

\* userOption === 'delete': deleteTestCase DELETEs the existing test case
HandleExistingDelete ==
  /\ pc = "existing"
  /\ UserOption = "delete"
  /\ Issue(Request("DELETE", "test-cases", tc.existing.identifier, "", "", 0, Len(tcCalls)))
  /\ pc' = "deleting"
  /\ UNCHANGED <<scenario, payload, env, tree, lag, script, folders, testCases, nextTestCaseId, now, run,
                 stack, gf, doc, tc, folderCalls, tcCalls, faults, error>>

\* [variant] deleteTestCase logs the error and does not rethrow it
DeleteTestCaseResponse_ErrorSwallowed ==
  /\ pc = "deleting"
  /\ \/ /\ Answer("ok")
        /\ testCases' = SelectSeq(testCases,
                                  LAMBDA t : t.identifier # calls[Len(calls)].id)
        /\ UNCHANGED faults
     \/ /\ MayFault
        /\ Answer("fail")
        /\ faults' = faults + 1
        /\ UNCHANGED testCases
  /\ pc' = "recreate"
  /\ UNCHANGED <<scenario, payload, env, tree, lag, script, folders, nextTestCaseId, now, run,
                 stack, gf, doc, tc, folderCalls, tcCalls, error>>
\* DELETE .../test-cases/{id} served: the test case is gone
DeleteTestCaseResponse ==
  /\ pc = "deleting"
  /\ \/ /\ Answer("ok")
        /\ testCases' = SelectSeq(testCases,
                                  LAMBDA t : t.identifier # calls[Len(calls)].id)
        /\ pc' = "recreate"
        /\ UNCHANGED <<faults, stack, error>>
     \/ /\ MayFault
        /\ Answer("fail")
        /\ ThrowError("transport")
        /\ faults' = faults + 1
        /\ UNCHANGED testCases
  /\ UNCHANGED <<scenario, payload, env, tree, lag, script, folders, nextTestCaseId, now, run,
                 gf, doc, tc, folderCalls, tcCalls>>

\* the payload is built for existingTestCase.folder_id and POSTed there
RecreateTestCaseRequest ==
  /\ pc = "recreate"
  /\ Issue(Request("POST", "test-cases", tc.existing.folder_id, tc.name, PayloadTemplate,
                   0, Len(tcCalls)))
  /\ pc' = "reposting"
  /\ UNCHANGED <<scenario, payload, env, tree, lag, script, folders, testCases, nextTestCaseId, now, run,
                 stack, gf, doc, tc, folderCalls, tcCalls, faults, error>>

RecreateTestCaseResponse ==
  /\ pc = "reposting"
  /\ PostResponse("Failed to recreate test case")
  /\ UNCHANGED <<scenario, payload, env, tree, lag, script, folders, now, run, gf, doc, folderCalls, tcCalls>>

\* any other userOption: none of the three ifs applies and the function
\* returns
HandleExistingOther ==
  /\ pc = "existing"
  /\ UserOption \notin {"skip", "update", "delete"}
  /\ tc' = NoTc
  /\ pc' = "scenario"
  /\ UNCHANGED <<scenario, payload, env, tree, lag, script, folders, testCases, nextTestCaseId, now, run,
                 stack, gf, doc, calls, folderCalls, tcCalls, faults, error>>

(* ------------------------------- index.js ------------------------------- *)
\* the first activation of traverseDirectory(featureDirectory)
RootFrame == <<[dir |-> tree, i |-> 1, parent |-> Null]>>

\* index.js is started again after a run that processed every feature file;
\* the environment and the local tree are the same
Rerun ==
  /\ pc = "done"
  /\ script = <<>>
  /\ run < MaxRuns
  /\ run' = run + 1
  /\ stack' = RootFrame
  /\ pc' = "walk"
  /\ UNCHANGED <<scenario, payload, env, tree, lag, script, folders, testCases, nextTestCaseId, now,
                 gf, doc, tc, calls, folderCalls, tcCalls, faults, error>>

\* a tree without subdirectories is explored in flat mode only, the default
\* delay, which outlasts every lag explored, with the longest lag only, and
\* the catalog that holds the folder a.feature with the trees whose
\* document a.feature lands in that folder (flat mode)
Init ==
  /\ env \in Envs
  /\ tree \in Roots
  /\ PreserveDirStructure => HasSubdirectory(tree)
  /\ lag \in 0..MaxLag
  /\ env.delay = UnsetDelay => lag = MaxLag
  /\ script = <<>>
  /\ \E c \in Catalogs :
       /\ c.folders # <<>> => ~PreserveDirStructure /\ tree \in RootsWithAFeature
       /\ folders = c.folders
       /\ testCases = c.testCases
       /\ nextTestCaseId = Len(c.testCases) + 1
  /\ now = 0
  /\ run = 1
  /\ pc = "walk"
  /\ stack = RootFrame
  /\ gf = NoGf
  /\ doc = NoDoc
  /\ tc = NoTc
  /\ calls = <<>>
  /\ folderCalls = <<>>
  /\ tcCalls = <<>>
  /\ faults = 0
  /\ error = ""
  /\ scenario = NoScenario
  /\ payload = NoPayload

Next ==
  \/ TraverseReturn
  \/ TraverseSubdirectory
  \/ TraverseFeatureFile
  \/ TraverseOtherFile
  \/ FetchFoldersRequest
  \/ FetchFoldersResponse
  \/ FindOrCreateFolder
  \/ CreateFolderResponse
  \/ Delay
  \/ ReturnFolder
  \/ DocumentDone
  \/ SkipChild
  \/ UploadPickleScenario
  \/ ListTestCasesResponse
  \/ CreateTestCaseRequest
  \/ CreateTestCaseResponse
  \/ HandleExistingSkip
  \/ HandleExistingUpdate
  \/ HandleExistingDelete
  \/ HandleExistingOther
  \/ UpdateTestCaseResponse
  \/ DeleteTestCaseResponse
  \/ RecreateTestCaseRequest
  \/ RecreateTestCaseResponse
  \/ Rerun

Spec == Init /\ [][Next]_vars

(* ------------------- getOrCreateFolder, a single call ------------------- *)
(* One call of getOrCreateFolder("a.feature", parent) against a scripted    *)
(* listing: a sequence of up to MaxPages responses, each with or without    *)
(* its folder collection, the collection empty or not, and a cursor that    *)
(* is absent or names the next page.                                        *)
ScriptFolders(parent) ==
  {<<>>,
   <<[id |-> 11, name |-> "a.feature", parent_id |-> parent]>>,
   <<[id |-> 12, name |-> "z.feature", parent_id |-> parent]>>,
   <<[id |-> 13, name |-> "a.feature", parent_id |-> 9]>>,
   <<[id |-> 14, name |-> "A.feature", parent_id |-> parent]>>,
   <<[id |-> 12, name |-> "z.feature", parent_id |-> parent],
     [id |-> 11, name |-> "a.feature", parent_id |-> parent]>>}
ScriptPages(parent) ==
  {[hasFolders |-> TRUE, folders |-> fs, next |-> n] :
     fs \in ScriptFolders(parent), n \in 0..MaxPages}
  \cup {[hasFolders |-> FALSE, folders |-> <<>>, next |-> n] : n \in 0..MaxPages}
Scripts(parent) ==
  UNION {{s \in [1..len -> ScriptPages(parent)] :
            /\ \A p \in 1..(len - 1) : s[p].next \in {Null, p + 1}
            /\ s[len].next = Null} : len \in 1..MaxPages}

InitFolder ==
  /\ env \in {e \in Envs : e.option = Unset /\ e.preserve = Unset}
  /\ tree = 1
  /\ lag = 0
  /\ folders = <<>>
  /\ testCases = <<>>
  /\ nextTestCaseId = 1
  /\ now = 0
  /\ run = 1
  /\ pc = "fetch"
  /\ stack = <<>>
  /\ \E parent \in {Null, 5} :
       /\ script \in Scripts(parent)
       /\ gf = [NoGf EXCEPT !.name = "a.feature", !.parent = parent, !.cont = "call",
                            !.nextPage = 1]
       /\ folderCalls = <<NewFolderCall("a.feature", parent, "call")>>
  /\ doc = NoDoc
  /\ tc = NoTc
  /\ calls = <<>>
  /\ tcCalls = <<>>
  /\ faults = 0
  /\ error = ""
  /\ scenario = NoScenario
  /\ payload = NoPayload

NextFolder ==
  \/ FetchFoldersRequest
  \/ FetchFoldersResponse
  \/ FindOrCreateFolder
  \/ CreateFolderResponse
  \/ Delay
  \/ ReturnFolder

SpecFolder == InitFolder /\ [][NextFolder]_vars

(* ===================== the run, with its scheduling ===================== *)
\* one step of a run in progress: the walker's own code, which Node runs to
\* the next await, or the answer to the outstanding request or timer
Step ==
  \/ TraverseReturn
  \/ TraverseSubdirectory
  \/ TraverseFeatureFile
  \/ TraverseOtherFile
  \/ FetchFoldersRequest
  \/ FetchFoldersResponse
  \/ FindOrCreateFolder
  \/ CreateFolderResponse
  \/ Delay
  \/ ReturnFolder
  \/ DocumentDone
  \/ SkipChild
  \/ UploadPickleScenario
  \/ ListTestCasesResponse
  \/ CreateTestCaseRequest
  \/ CreateTestCaseResponse
  \/ HandleExistingSkip
  \/ HandleExistingUpdate
  \/ HandleExistingDelete
  \/ HandleExistingOther
  \/ UpdateTestCaseResponse
  \/ DeleteTestCaseResponse
  \/ RecreateTestCaseRequest
  \/ RecreateTestCaseResponse

\* one run, from the call of traverseDirectory in index.js on: the run is
\* not left waiting, every await settles and the code after it runs
SpecLive == Init /\ [][Step]_vars /\ WF_vars(Step)

(* ================== the request body of one scenario =================== *)
(* uploadPickleScenario and the two payload builders, run alone on a      *)
(* scenario drawn from a bounded set. A string is the sequence of its     *)
(* pieces, so that template literals and join() are concatenations.       *)
MaxSteps == 2

Lf == "\n"
Tab == "\t"
Keywords == {<<"Given ">>, <<"Then ">>, <<"Background">>}
Texts == {<<>>, <<"a">>, <<"b">>}
ScenarioNames == {<<"s1">>, <<"s1", " ", "(2)">>}
FeatureName == <<"F">>
StepLists ==
  UNION {[1..n -> [keyword : Keywords, text : Texts]] : n \in 0..MaxSteps}
Scenarios == [name : ScenarioNames, steps : StepLists]

\* Array.prototype.join(sep) over strings
RECURSIVE Join(_, _)
Join(strs, sep) ==
  IF strs = <<>> THEN <<>>
  ELSE IF Len(strs) = 1 THEN strs[1]
  ELSE strs[1] \o <<sep>> \o Join(Tail(strs), sep)

\* scenario.steps.filter(step => step.keyword === 'Background')
\*               .map(step => step.text).join('\n')
BackgroundSteps(steps) == SelectSeq(steps, LAMBDA st : st.keyword = <<"Background">>)
Background(steps) ==
  LET bs == BackgroundSteps(steps)
  IN  Join([i \in 1..Len(bs) |-> bs[i].text], Lf)

\* a property of an object literal: its key, and its value unless undefined
Field(key, value) == [key |-> key, defined |-> TRUE, value |-> value]
Undefined(key) == [key |-> key, defined |-> FALSE, value |-> <<>>]

\* [variant] the preconditions are written whatever the background is
Preconditions_Always(background) ==
  Field("preconditions", <<"Background: ">> \o background)
\* background && background.length > 0 ? `Background: ${background}` : undefined
Preconditions(background) ==
  IF background # <<>> /\ Len(background) > 0
  THEN Field("preconditions", <<"Background: ">> \o background)
  ELSE Undefined("preconditions")

\* `<p>${featureName} > ${scenarioName}</p>`
Description(featureName, scenarioName) ==
  <<"<p>">> \o featureName \o <<" > ">> \o scenarioName \o <<"</p>">>

\* steps.map(step => `\t${step.keyword}${step.text}`).join('\n')
ScenarioContent(steps) ==
  Join([i \in 1..Len(steps) |-> <<Tab>> \o steps[i].keyword \o steps[i].text], Lf)

\* steps.map(step => ({ step: `${step.keyword}${step.text}`, result: '' }))
TestCaseSteps(steps) ==
  [i \in 1..Len(steps) |-> [step |-> steps[i].keyword \o steps[i].text, result |-> <<>>]]

\* the body as axios serialises it: a property whose value is undefined is
\* left out of the JSON text
Body(fields) ==
  LET sent == {i \in 1..Len(fields) : fields[i].defined}
  IN  [k \in {fields[i].key : i \in sent} |->
         fields[CHOOSE i \in sent : fields[i].key = k].value]

\* the test_case object createBDDTestCase's callback returns
BDDTestCase(scenarioName, featureName, background, steps) ==
  Body(<<Field("name", scenarioName),
         Field("template", <<"test_case_bdd">>),
         Field("feature", featureName),
         Field("background", background),
         Field("description", Description(featureName, scenarioName)),
         Preconditions(background),
         Field("scenario", ScenarioContent(steps))>>)

\* the test_case object createTestCaseWithSteps' callback returns
TestCaseWithSteps(scenarioName, featureName, background, steps) ==
  Body(<<Field("name", scenarioName),
         Field("template", <<"test_case_steps">>),
         Field("description", Description(featureName, scenarioName)),
         Field("preconditions", background),
         Field("test_case_steps", TestCaseSteps(steps))>>)

InitPayload ==
  /\ env \in {e \in Envs : e.preserve = Unset /\ e.delay = 0}
  /\ scenario \in Scenarios
  /\ payload = NoPayload
  /\ pc = "upload"
  /\ tree = 1
  /\ lag = 0
  /\ script = <<>>
  /\ folders = <<>>
  /\ testCases = <<>>
  /\ nextTestCaseId = 1
  /\ now = 0
  /\ run = 1
  /\ stack = <<>>
  /\ gf = NoGf
  /\ doc = NoDoc
  /\ tc = NoTc
  /\ calls = <<>>
  /\ folderCalls = <<>>
  /\ tcCalls = <<>>
  /\ faults = 0
  /\ error = ""

PayloadFrame ==
  UNCHANGED <<scenario, env, tree, lag, script, folders, testCases, nextTestCaseId,
              now, run, stack, gf, doc, tc, calls, folderCalls, tcCalls, faults>>

\* testCaseTemplate === 'steps': createTestCaseWithSteps builds the body
BuildTestCaseWithSteps ==
  /\ pc = "upload"
  /\ TestCaseTemplate = "steps"
  /\ payload' = TestCaseWithSteps(scenario.name, FeatureName,
                                  Background(scenario.steps), scenario.steps)
  /\ pc' = "built"
  /\ UNCHANGED error
  /\ PayloadFrame

\* testCaseTemplate === 'bdd': createBDDTestCase builds the body
BuildBDDTestCase ==
  /\ pc = "upload"
  /\ TestCaseTemplate = "bdd"
  /\ payload' = BDDTestCase(scenario.name, FeatureName,
                            Background(scenario.steps), scenario.steps)
  /\ pc' = "built"
  /\ UNCHANGED error
  /\ PayloadFrame

\* any other value: uploadPickleScenario throws, nothing is built
RejectTemplate ==
  /\ pc = "upload"
  /\ TestCaseTemplate \notin {"steps", "bdd"}
  /\ error' = "Invalid TEST_CASE_TEMPLATE value"
  /\ pc' = "failed"
  /\ UNCHANGED payload
  /\ PayloadFrame

NextPayload ==
  \/ BuildTestCaseWithSteps
  \/ BuildBDDTestCase
  \/ RejectTemplate

SpecPayload == InitPayload /\ [][NextPayload]_vars

(* ======================= properties of the model ======================= *)
\* the requests a getOrCreateTestCase / a getOrCreateFolder activation issued
CallsOfTestCase(n) == SelectSeq(calls, LAMBDA c : c.resource = "test-cases" /\ c.of = n)
CallsOfFolder(n) == SelectSeq(calls, LAMBDA c : c.resource = "folders" /\ c.of = n)
Methods(cs) == [i \in 1..Len(cs) |-> cs[i].method]
IsPrefix(a, b) == Len(a) <= Len(b) /\ a = SubSeq(b, 1, Len(a))
LastCall == calls[Len(calls)]
\* activation n of getOrCreateTestCase is still running
ActiveTestCase(n) ==
  /\ n = Len(tcCalls)
  /\ pc \in {"listing", "create", "posting", "existing", "patching", "deleting",
             "recreate", "reposting"}
\* the run ended with an error thrown inside activation n
FailedInTestCase(n) ==
  /\ pc = "failed"
  /\ calls # <<>>
  /\ LastCall.resource = "test-cases"
  /\ LastCall.of = n
\* activation n returned
ReturnedTestCase(n) == ~ActiveTestCase(n) /\ ~FailedInTestCase(n)
\* the activations whose lookup found a test case of the scenario's title
FoundExisting == {n \in 1..Len(tcCalls) : tcCalls[n].existing # NoTestCase}
\* no listing response came without its collection
FolderListingsWellFormed ==
  \A i \in 1..Len(calls) :
    calls[i].method = "GET" /\ calls[i].resource = "folders" => calls[i].status # "malformed"
ListingsWellFormed ==
  \A i \in 1..Len(calls) : calls[i].method = "GET" => calls[i].status # "malformed"
\* every folder the catalog creates is listed before the settling delay ends
SettlesInTime == lag <= FolderCreationDelay
SkipConfigured == env.option \in {Unset, "skip"}

(* ---- C1 ---- *)
\* C1 as stated: under policy skip a second run over the unchanged tree issues
\* no POST (no folder is created, no test case is created); the catalog's
\* listings are taken to carry their collections and the settling delay to
\* be positive.
C1_SecondRunCreatesNothing ==
  (SkipConfigured /\ ListingsWellFormed /\ FolderCreationDelay > 0) =>
    \A i \in 1..Len(calls) : calls[i].run >= 2 => calls[i].method # "POST"

\* C1, amended: under policy skip, when every created folder is listed within
\* the settling delay and no listing response lacks its collection, a run
\* that follows a completed run issues no POST; each of its getOrCreateFolder
\* calls returns an existing folder and each of its test-case lookups finds
\* the test case.
C1_IdempotentWhenSettled ==
  (SkipConfigured /\ SettlesInTime /\ ListingsWellFormed) =>
    /\ \A i \in 1..Len(calls) : calls[i].run >= 2 => calls[i].method # "POST"
    /\ \A n \in 1..Len(folderCalls) : folderCalls[n].run >= 2 => ~folderCalls[n].created
    /\ \A n \in 1..Len(tcCalls) :
         tcCalls[n].run >= 2 /\ tcCalls[n].answered => tcCalls[n].existing # NoTestCase

\* a second run ended after a first run that created a folder and a test
\* case, on a catalog that lists a new folder only after a while
C1_Witness ==
  /\ SkipConfigured /\ SettlesInTime /\ ListingsWellFormed
  /\ lag > 0
  /\ run = 2 /\ pc = "done"
  /\ \E i, j \in 1..Len(calls) :
       /\ calls[i].run = 1 /\ calls[i].method = "POST" /\ calls[i].resource = "folders"
       /\ calls[j].run = 1 /\ calls[j].method = "POST" /\ calls[j].resource = "test-cases"
  /\ \E n \in 1..Len(tcCalls) : tcCalls[n].run = 2 /\ tcCalls[n].existing # NoTestCase

(* ---- C2 ---- *)
NoDuplicateFolders ==
  \A i, j \in 1..Len(folders) :
    i # j => ~(folders[i].name = folders[j].name /\ folders[i].parent_id = folders[j].parent_id)

\* C2 as stated: no two remote folders ever share (name, parent), however late
\* a created folder becomes visible in the listing; the catalog's listings
\* are taken to carry their collections and the settling delay to be positive.
C2_NoDuplicateFolders ==
  (FolderListingsWellFormed /\ FolderCreationDelay > 0) => NoDuplicateFolders

\* C2, amended: no two remote folders share (name, parent) provided every
\* created folder is listed within folderCreationDelay of its creation and
\* every folder-listing response carries its folder collection.
C2_NoDuplicateWhenSettled ==
  (SettlesInTime /\ FolderListingsWellFormed) => NoDuplicateFolders

\* one run asked twice for the same (name, parent): the first call created
\* the folder, the second one found it once the delay had passed
C2_Witness ==
  /\ SettlesInTime /\ FolderListingsWellFormed
  /\ lag > 0
  /\ \E n, m \in 1..Len(folderCalls) :
       /\ n < m
       /\ folderCalls[n].run = folderCalls[m].run
       /\ folderCalls[n].name = folderCalls[m].name
       /\ folderCalls[n].parent = folderCalls[m].parent
       /\ folderCalls[n].created
       /\ folderCalls[m].returned /\ ~folderCalls[m].created
       /\ folderCalls[m].id = folderCalls[n].id

(* ---- C3 ---- *)
\* the scripted listing's pages chained by the cursor: 1..ScriptLength
ScriptLength == CHOOSE p \in 1..Len(script) :
                  /\ script[p].next = Null
                  /\ \A q \in 1..(p - 1) : script[q].next # Null
RECURSIVE Aggregated(_)
\* the folders of pages 1..p, in page order
Aggregated(p) == IF p = 0 THEN <<>> ELSE Aggregated(p - 1) \o script[p].folders
IsCreateFolder(c) == c.method = "POST" /\ c.resource = "folders"
PagesRequested == [i \in 1..Len(CallsOfFolder(1)) |-> CallsOfFolder(1)[i].page]

\* C3: when every page of the N-page listing carries its collection, the
\* create request is issued only after pages 1..N were requested, in order,
\* and only if none of them holds a folder of the requested name and parent;
\* when one does, the call returns the identifier of the first such folder
\* and never issues a create request.
C3_AggregatesAllPages ==
  LET n == ScriptLength
      hit == FindFolder(Aggregated(n), folderCalls[1].name, folderCalls[1].parent)
  IN  ~folderCalls[1].truncated =>
        /\ (\E i \in 1..Len(calls) : IsCreateFolder(calls[i])) =>
             /\ SubSeq(PagesRequested, 1, n) = [p \in 1..n |-> p]
             /\ Len(PagesRequested) = n + 1
             /\ IsCreateFolder(CallsOfFolder(1)[n + 1])
             /\ hit = NoFolder
        /\ hit # NoFolder =>
             /\ \A i \in 1..Len(calls) : ~IsCreateFolder(calls[i])
             /\ folderCalls[1].returned => folderCalls[1].id = hit.id

\* the folder was found on the last of three pages and returned
C3_Witness ==
  /\ ScriptLength = 3
  /\ ~folderCalls[1].truncated
  /\ FindFolder(Aggregated(2), folderCalls[1].name, folderCalls[1].parent) = NoFolder
  /\ FindFolder(Aggregated(3), folderCalls[1].name, folderCalls[1].parent) # NoFolder
  /\ folderCalls[1].returned
  /\ folderCalls[1].id = 11

(* ---- C4 ---- *)
IsGetFolders(c) == c.method = "GET" /\ c.resource = "folders"
\* what request i, a page of the listing, was answered with
Served(i) == IF calls[i].status = "malformed" THEN NoCollection ELSE script[calls[i].page]
AnsweredPages == {i \in 1..Len(calls) : IsGetFolders(calls[i]) /\ calls[i].status \in {"ok", "malformed"}}
\* after the page answered as request i nothing more is fetched and no error
\* is raised: the search for the folder comes next
EndsPagination(i) ==
  /\ i = Len(calls) => pc \in {"find", "return", "done"}
  /\ i < Len(calls) => IsCreateFolder(calls[i + 1])
RECURSIVE Accumulated(_)
\* the folders of the pages answered up to request i
Accumulated(i) ==
  IF i = 0 THEN <<>>
  ELSE IF Served(i).hasFolders THEN Accumulated(i - 1) \o Served(i).folders
       ELSE Accumulated(i - 1)

\* C4 as stated: a page with an empty folder collection, or with none, ends
\* the pagination, also when it carries a next-page cursor.
C4_EmptyOrAbsentEndsPagination ==
  \A i \in AnsweredPages :
    (~Served(i).hasFolders \/ Served(i).folders = <<>>) => EndsPagination(i)

\* C4, amended: a page with no folder collection ends the pagination, also
\* when it carries a cursor, and so does any page without a cursor; no error
\* is raised and fetchAllFolders returns exactly the folders of the pages
\* before it.  A page with a collection, empty or not, and a cursor is
\* followed by the request of the page the cursor names.
C4_AbsentEndsPaginationEmptyFollowsCursor ==
  \A i \in AnsweredPages :
    /\ (~Served(i).hasFolders \/ Served(i).next = Null) =>
         /\ EndsPagination(i)
         /\ pc = "find" => gf.folders = Accumulated(i)
    /\ (Served(i).hasFolders /\ Served(i).next # Null) =>
         /\ i = Len(calls) => pc = "fetch" /\ gf.nextPage = Served(i).next
         /\ i < Len(calls) => IsGetFolders(calls[i + 1]) /\ calls[i + 1].page = Served(i).next

\* a page with a folder, then an empty page with a cursor, then a page without
\* a collection: the three were requested and the one folder is returned
C4_Witness ==
  /\ Len(calls) = 3
  /\ AnsweredPages = {1, 2, 3}
  /\ Served(1).folders # <<>>
  /\ Served(2).hasFolders /\ Served(2).folders = <<>> /\ Served(2).next = 3
  /\ ~Served(3).hasFolders
  /\ pc = "find"
  /\ Len(gf.folders) = Len(Served(1).folders)

(* ---- C5 ---- *)
\* C5: with EXISTING_TEST_CASE_OPTION unset or skip, no PATCH and no DELETE is
\* ever issued, and an activation whose lookup found the test case issues no
\* request but that lookup and raises no error: the run goes on.
C5_SkipIssuesNothing ==
  SkipConfigured =>
    /\ \A i \in 1..Len(calls) : calls[i].method \notin {"PATCH", "DELETE"}
    /\ \A n \in FoundExisting :
         /\ Methods(CallsOfTestCase(n)) = <<"GET">>
         /\ ~FailedInTestCase(n)

\* nothing is configured, a scenario's test case was found and the walk went
\* on to look the next scenario up
C5_Witness ==
  /\ env.option = Unset
  /\ \E n \in FoundExisting : n < Len(tcCalls) /\ tcCalls[n].run = tcCalls[n + 1].run

(* ---- C6 ---- *)
\* the template tag of the configured template
ConfiguredTag ==
  IF env.template \in {Unset, "bdd"} THEN "test_case_bdd" ELSE "test_case_steps"

\* C6: under policy update, an activation that found a test case with the
\* configured template's tag issues, after the lookup, one PATCH against the
\* found identifier and nothing else; one that found another tag issues
\* nothing after the lookup and raises no error.  No POST follows a
\* successful lookup and no DELETE is issued at all.
C6_UpdatePatchesOnceOnMatch ==
  env.option = "update" =>
    /\ \A i \in 1..Len(calls) : calls[i].method # "DELETE"
    /\ \A n \in FoundExisting :
         LET cs == CallsOfTestCase(n)
         IN  IF tcCalls[n].existing.template = ConfiguredTag
             THEN /\ IsPrefix(Methods(cs), <<"GET", "PATCH">>)
                  /\ Len(cs) = 2 => cs[2].id = tcCalls[n].existing.identifier
                  /\ ReturnedTestCase(n) => Len(cs) = 2 /\ cs[2].status = "ok"
             ELSE /\ Methods(cs) = <<"GET">>
                  /\ ~FailedInTestCase(n)

\* one run patched a test case whose tag matched and passed over one whose
\* tag did not
C6_Witness ==
  /\ env.option = "update"
  /\ \E n, m \in FoundExisting :
       /\ tcCalls[n].existing.template = ConfiguredTag
       /\ ReturnedTestCase(n)
       /\ Methods(CallsOfTestCase(n)) = <<"GET", "PATCH">>
       /\ tcCalls[m].existing.template # ConfiguredTag
       /\ ReturnedTestCase(m)

(* ---- C7 ---- *)
\* C7: under policy delete, an activation that found a test case issues,
\* after the lookup, one DELETE against the found identifier and then one
\* POST to the found test case's folder with the scenario's name; the POST
\* is issued only once the DELETE was answered successfully; no PATCH is
\* issued at all.
C7_DeleteThenRecreate ==
  env.option = "delete" =>
    /\ \A i \in 1..Len(calls) : calls[i].method # "PATCH"
    /\ \A n \in FoundExisting :
         LET cs == CallsOfTestCase(n)
         IN  /\ IsPrefix(Methods(cs), <<"GET", "DELETE", "POST">>)
             /\ Len(cs) >= 2 => cs[2].id = tcCalls[n].existing.identifier
             /\ Len(cs) = 3 =>
                  /\ cs[2].status = "ok"
                  /\ cs[3].id = tcCalls[n].existing.folder_id
                  /\ cs[3].name = tcCalls[n].name
             /\ ReturnedTestCase(n) => Len(cs) = 3 /\ cs[3].status = "ok"

\* a found test case was deleted and recreated, and the activation returned
C7_Witness ==
  /\ env.option = "delete"
  /\ \E n \in FoundExisting :
       /\ ReturnedTestCase(n)
       /\ Methods(CallsOfTestCase(n)) = <<"GET", "DELETE", "POST">>
       /\ \E t \in 1..Len(testCases) :
            /\ testCases[t].title = tcCalls[n].name
            /\ testCases[t].identifier # tcCalls[n].existing.identifier

(* ---- C8 ---- *)
\* the recreation POST of activation n failed or was answered without the
\* created test case
RecreationFailed(n) ==
  /\ Len(CallsOfTestCase(n)) = 3
  /\ CallsOfTestCase(n)[3].status \in {"fail", "malformed"}

\* C8: under policy delete, once the recreation POST has failed or come back
\* without a test case, the run has ended with that error thrown out of
\* traverseDirectory, the failed POST is the last request ever issued, and
\* the deleted test case is absent from the catalog.
C8_RecreationFailureSurfaces ==
  env.option = "delete" =>
    \A n \in FoundExisting :
      RecreationFailed(n) =>
        /\ pc = "failed"
        /\ stack = <<>>
        /\ error = IF CallsOfTestCase(n)[3].status = "malformed"
                   THEN "Failed to recreate test case" ELSE "transport"
        /\ LastCall = CallsOfTestCase(n)[3]
        /\ \A t \in 1..Len(testCases) :
             testCases[t].identifier # tcCalls[n].existing.identifier

\* a recreation came back without the created test case
C8_Witness ==
  /\ env.option = "delete"
  /\ \E n \in FoundExisting :
       /\ RecreationFailed(n)
       /\ CallsOfTestCase(n)[3].status = "malformed"
       /\ CallsOfTestCase(n)[2].status = "ok"

(* ---- C9 ---- *)
\* C9: with an EXISTING_TEST_CASE_OPTION other than skip, update and delete,
\* an activation that found a test case issues no request after the lookup
\* and never returns: it ends the run with an error.
C9_UnknownPolicyFails ==
  env.option \notin {Unset, "skip", "update", "delete"} =>
    \A n \in FoundExisting :
      /\ Methods(CallsOfTestCase(n)) = <<"GET">>
      /\ ~ReturnedTestCase(n)

(* ---- C10 ---- *)
\* C10: from the create response to the return of getOrCreateFolder no
\* request is issued (the create POST stays the last one), a call that
\* created its folder returns no earlier than folderCreationDelay after the
\* create response, and a call that found its folder returns at the time it
\* was entered.
C10_SettlingDelay ==
  /\ pc \in {"delay", "return"} /\ folderCalls[Len(folderCalls)].created =>
       /\ IsCreateFolder(LastCall)
       /\ LastCall.of = Len(folderCalls)
       /\ LastCall.status = "ok"
  /\ pc = "return" /\ folderCalls[Len(folderCalls)].created =>
       now >= folderCalls[Len(folderCalls)].createdAt + FolderCreationDelay
  /\ \A n \in 1..Len(folderCalls) :
       folderCalls[n].returned =>
         IF folderCalls[n].created
         THEN folderCalls[n].returnedAt >= folderCalls[n].createdAt + FolderCreationDelay
         ELSE folderCalls[n].returnedAt = folderCalls[n].calledAt

\* with a positive delay, one call created its folder and returned, another
\* found its folder
C10_Witness ==
  /\ FolderCreationDelay > 0
  /\ \E n, m \in 1..Len(folderCalls) :
       /\ folderCalls[n].returned /\ folderCalls[n].created
       /\ folderCalls[m].returned /\ ~folderCalls[m].created

(* ---- C11 ---- *)
\* the aggregated listing of the single call: the folders of every page
\* answered (the listing requests are the first requests of the call)
ListingOver == pc \in {"find", "creating", "delay", "return", "done"}
                 \/ (pc = "failed" /\ IsCreateFolder(LastCall))
NumListed == Cardinality({i \in 1..Len(calls) : IsGetFolders(calls[i])})
\* the listed folders of exactly the requested name under the requested parent
Matching ==
  {k \in 1..Len(Accumulated(NumListed)) :
     /\ Accumulated(NumListed)[k].name = folderCalls[1].name
     /\ Accumulated(NumListed)[k].parent_id = folderCalls[1].parent}

\* C11: once the listing is aggregated, getOrCreateFolder issues the create
\* request if and only if no listed folder has exactly the requested name
\* and the requested parent; when one has, the call returns the identifier
\* of such a folder and the catalog is left as it was; a call that created
\* nothing never returns the identifier of a folder of another name or
\* another parent.
C11_CreateIffNoMatch ==
  ListingOver =>
    /\ pc # "find" => ((\E i \in 1..Len(calls) : IsCreateFolder(calls[i])) <=> Matching = {})
    /\ Matching # {} =>
         /\ folders = <<>>
         /\ \A i \in 1..Len(calls) : calls[i].method = "GET"
    /\ folderCalls[1].returned /\ ~folderCalls[1].created =>
         \E k \in Matching : Accumulated(NumListed)[k].id = folderCalls[1].id
    /\ folderCalls[1].returned /\ folderCalls[1].created =>
         /\ Matching = {}
         /\ \A k \in 1..Len(Accumulated(NumListed)) :
              Accumulated(NumListed)[k].id # folderCalls[1].id

\* the listing held a folder of the same name under another parent and one
\* whose name differs in case only: the call created its folder and returned
C11_Witness ==
  /\ folderCalls[1].returned /\ folderCalls[1].created
  /\ \E k \in 1..Len(Accumulated(NumListed)) :
       /\ Accumulated(NumListed)[k].name = folderCalls[1].name
       /\ Accumulated(NumListed)[k].parent_id # folderCalls[1].parent
  /\ \E k \in 1..Len(Accumulated(NumListed)) :
       Accumulated(NumListed)[k].name = "A.feature"

(* ---- C12 ---- *)
\* C12: once a folder-create response has come without the folder object,
\* the run has ended with the folder-creation error, the call has returned
\* no identifier and has not waited (the clock stands where it stood when
\* the call was entered), and the create request is the last request of
\* the run: nothing is looked up or changed for the document or the
\* subdirectory that needed the folder.
C12_FolderCreationFailure ==
  \A i \in 1..Len(calls) :
    IsCreateFolder(calls[i]) /\ calls[i].status = "malformed" =>
      /\ pc = "failed"
      /\ error = "Failed to create folder"
      /\ i = Len(calls)
      /\ ~folderCalls[calls[i].of].returned
      /\ folderCalls[calls[i].of].id = Null
      /\ now = folderCalls[calls[i].of].calledAt
      /\ \A n \in 1..Len(tcCalls) :
           tcCalls[n].run = calls[i].run => tcCalls[n].folderId # Null
      /\ calls[i].of = Len(folderCalls)

\* with a positive settling delay and after an earlier folder call, the
\* create response for a document's folder came without the folder
C12_Witness ==
  /\ FolderCreationDelay > 0
  /\ pc = "failed"
  /\ IsCreateFolder(LastCall) /\ LastCall.status = "malformed"
  /\ folderCalls[LastCall.of].cont = "doc"
  /\ Len(folderCalls) > 1

(* ---- C13 ---- *)
\* the lookup of activation n was answered with a test case of the
\* scenario's title
TitleListed(n) ==
  \E k \in 1..Len(tcCalls[n].listed) : tcCalls[n].listed[k].title = tcCalls[n].name

\* C13: every getOrCreateTestCase activation begins with the listing of its
\* folder's test cases and issues no second listing.  When no listed test
\* case has the scenario's title, the only request after the listing is one
\* POST to that folder carrying the scenario's name, the activation does not
\* return without it, and a response without the created test case ends
\* the run with the test-case-creation error.  When one has the title, the
\* request after the listing, if any, is not a POST.
C13_TestCaseResolution ==
  \A n \in 1..Len(tcCalls) :
    LET cs == CallsOfTestCase(n)
    IN  /\ cs # <<>>
        /\ cs[1].method = "GET" /\ cs[1].id = tcCalls[n].folderId
        /\ \A j \in 2..Len(cs) : cs[j].method # "GET"
        /\ ~tcCalls[n].answered => Len(cs) = 1
        /\ tcCalls[n].answered /\ ~TitleListed(n) =>
             /\ IsPrefix(Methods(cs), <<"GET", "POST">>)
             /\ Len(cs) = 2 => cs[2].id = tcCalls[n].folderId /\ cs[2].name = tcCalls[n].name
             /\ ReturnedTestCase(n) => Len(cs) = 2 /\ cs[2].status = "ok"
             /\ Len(cs) = 2 /\ cs[2].status = "malformed" =>
                  pc = "failed" /\ error = "Failed to create test case"
        /\ tcCalls[n].answered /\ TitleListed(n) =>
             /\ Len(cs) >= 2 => cs[2].method # "POST"
             /\ tcCalls[n].existing.title = tcCalls[n].name

\* a lookup listed a test case of another title: the scenario's test case
\* was created and the activation returned; another creation came back
\* without the test case
C13_Witness ==
  /\ \E n \in 1..Len(tcCalls) :
       /\ tcCalls[n].listed # <<>>
       /\ ~TitleListed(n)
       /\ Methods(CallsOfTestCase(n)) = <<"GET", "POST">>
       /\ n < Len(tcCalls)
  /\ pc = "failed" /\ error = "Failed to create test case"

(* ---- C14 ---- *)
IsTestCasePost(c) == c.method = "POST" /\ c.resource = "test-cases"
\* a getOrCreateFolder activation of run r that returned identifier id
\* before request i was issued
FolderEnsuredBefore(i, r, id) ==
  \E n \in 1..Len(folderCalls) :
    /\ folderCalls[n].run = r
    /\ folderCalls[n].returned
    /\ folderCalls[n].id = id
    /\ folderCalls[n].requests < i
\* a test-case listing of run r, requested before request i, that was
\* answered with a test case of identifier id
TestCaseListedBefore(i, r, id) ==
  \E j \in 1..(i - 1) :
    /\ calls[j].method = "GET" /\ calls[j].resource = "test-cases"
    /\ calls[j].run = r
    /\ \E k \in 1..Len(tcCalls[calls[j].of].listed) :
         tcCalls[calls[j].of].listed[k].identifier = id

\* C14: every POST of a test case, creation or recreation, goes to a folder
\* whose identifier a getOrCreateFolder call of the same run returned
\* before, and every PATCH and DELETE goes to a test case that a test-case
\* listing of the same run returned before.
C14_RunScopedProvenance ==
  \A i \in 1..Len(calls) :
    /\ IsTestCasePost(calls[i]) => FolderEnsuredBefore(i, calls[i].run, calls[i].id)
    /\ calls[i].method \in {"PATCH", "DELETE"} =>
         TestCaseListedBefore(i, calls[i].run, calls[i].id)

\* the first run created a test case; the second run found it, deleted it
\* and recreated it in the folder it had resolved itself
C14_Witness ==
  \E i, j, k \in 1..Len(calls) :
    /\ calls[i].run = 1 /\ IsTestCasePost(calls[i]) /\ calls[i].status = "ok"
    /\ calls[j].run = 2 /\ calls[j].method = "DELETE" /\ calls[j].status = "ok"
    /\ calls[k].run = 2 /\ IsTestCasePost(calls[k]) /\ calls[k].status = "ok"
    /\ j < k

(* ---- C15 ---- *)
\* the positions at which the code waits for the answer to a request
Awaiting == {"fetching", "creating", "listing", "posting", "patching", "deleting",
             "reposting"}
Outstanding == {i \in 1..Len(calls) : calls[i].status = "pending"}

\* C15: at most one request is outstanding, and it is the last one issued:
\* every request but the last has been answered or has failed, so a request
\* is issued only after the previous one was answered; a request is
\* outstanding exactly while the code waits for it.
C15_SequentialCalls ==
  /\ Cardinality(Outstanding) <= 1
  /\ \A i \in Outstanding : i = Len(calls)
  /\ (Outstanding # {}) <=> (pc \in Awaiting)

\* folder listing, folder creation, test-case listing, DELETE and POST were
\* issued one after the other, and the last request is outstanding
C15_Witness ==
  /\ Outstanding = {Len(calls)}
  /\ \E a, b, c, d, e \in 1..Len(calls) :
       /\ a < b /\ b < c /\ c < d /\ d < e
       /\ IsGetFolders(calls[a])
       /\ IsCreateFolder(calls[b])
       /\ calls[c].method = "GET" /\ calls[c].resource = "test-cases"
       /\ calls[d].method = "DELETE"
       /\ IsTestCasePost(calls[e])

(* ---- C16 ---- *)
\* request i failed: a transport error, or a create response without the
\* created entity
Failed(i) ==
  \/ calls[i].status = "fail"
  \/ calls[i].method = "POST" /\ calls[i].status = "malformed"
\* the error a failed request ends the run with
ErrorOf(c) ==
  IF c.status = "fail" THEN "transport"
  ELSE IF c.resource = "folders" THEN "Failed to create folder"
  ELSE IF Len(CallsOfTestCase(c.of)) = 3 THEN "Failed to recreate test case"
  ELSE "Failed to create test case"
\* what the successful creations before request i left in the catalog
KeptBefore(i) ==
  \A j \in 1..(i - 1) :
    /\ IsCreateFolder(calls[j]) /\ calls[j].status = "ok" =>
         \E f \in 1..Len(folders) :
           /\ folders[f].id = folderCalls[calls[j].of].id
           /\ folders[f].name = calls[j].name
    /\ IsTestCasePost(calls[j]) /\ calls[j].status = "ok" /\ env.option # "delete" =>
         \E t \in 1..Len(testCases) :
           testCases[t].title = calls[j].name /\ testCases[t].folder_id = calls[j].id

\* C16: once a request has failed, the run has ended with that request's
\* error thrown out of traverseDirectory and the failed request is the last
\* request ever issued: it is not repeated, nothing more of the tree is
\* processed, no delete compensates for what was created before, and the
\* folders and test cases created before are still in the catalog.
C16_AbortOnFirstFailure ==
  \A i \in 1..Len(calls) :
    Failed(i) =>
      /\ i = Len(calls)
      /\ pc = "failed"
      /\ stack = <<>>
      /\ error = ErrorOf(calls[i])
      /\ KeptBefore(i)

\* the first document's folder and test case were created; the listing for
\* the second document's folder failed and the run ended there
C16_Witness ==
  /\ tree = 3
  /\ run = 1
  /\ pc = "failed" /\ error = "transport"
  /\ IsGetFolders(LastCall) /\ LastCall.status = "fail"
  /\ Len(tcCalls) = 1
  /\ Methods(CallsOfTestCase(1)) = <<"GET", "POST">>
  /\ Len(testCases) = 1

(* ---- C17 ---- *)
RECURSIVE FilesOfEntries(_, _)
\* the feature files under the directory entries es[i..], in the order of
\* a depth-first walk
FilesOfEntries(es, i) ==
  IF i > Len(es) THEN <<>>
  ELSE (IF Nodes[es[i]].isDirectory THEN FilesOfEntries(Nodes[es[i]].entries, 1)
        ELSE IF EndsWithFeature(Nodes[es[i]].name) THEN <<es[i]>>
        ELSE <<>>) \o FilesOfEntries(es, i + 1)
\* the documents of each local tree
DocumentsOf == [root \in Roots |-> FilesOfEntries(Nodes[root].entries, 1)]
Documents == DocumentsOf[tree]
\* the scenarios of document number d of a tree, by name
ScenariosOf(root, d) ==
  LET cs == SelectSeq(Nodes[DocumentsOf[root][d]].children, LAMBDA c : c.scenario)
  IN  [k \in 1..Len(cs) |-> [doc |-> d, name |-> cs[k].name]]
RECURSIVE ScenariosUpTo(_, _)
\* the scenarios of documents 1..d, each with the number of its document
ScenariosUpTo(root, d) ==
  IF d = 0 THEN <<>> ELSE ScenariosUpTo(root, d - 1) \o ScenariosOf(root, d)
ScenariosIn == [root \in Roots |-> ScenariosUpTo(root, Len(DocumentsOf[root]))]
FolderCallsOfRun(r) == SelectSeq(folderCalls, LAMBDA c : c.run = r)
TestCaseCallsOfRun(r) == SelectSeq(tcCalls, LAMBDA c : c.run = r)
\* run r is over and processed the whole tree
Completed(r) == r < run \/ (r = run /\ pc = "done")
\* lookup n is the first of its run for its scenario name in its folder,
\* and the folder was created by the run
FirstInNewFolder(n) ==
  /\ \E m \in 1..Len(folderCalls) :
       /\ folderCalls[m].run = tcCalls[n].run
       /\ folderCalls[m].created
       /\ folderCalls[m].id = tcCalls[n].folderId
  /\ \A m \in 1..(n - 1) :
       ~(tcCalls[m].run = tcCalls[n].run /\ tcCalls[m].folderId = tcCalls[n].folderId
         /\ tcCalls[m].name = tcCalls[n].name)

\* C17: in flat mode under policy skip, the getOrCreateFolder calls of a run
\* are, in order, one per document, named after the document's file and
\* placed under the root; the test-case lookups are, in order, one per
\* scenario of each document, in the folder returned for that document; a
\* run that processed the whole tree made exactly these calls.  A lookup in
\* a folder the run created, for a name not looked up there before, is
\* followed by exactly one creation POST before it returns.
C17_OneFolderPerDocument ==
  SkipConfigured /\ ~PreserveDirStructure =>
    /\ LET docs == Documents
           expected == ScenariosIn[tree]
       IN  \A r \in 1..run :
             LET fc == FolderCallsOfRun(r)
                 tcs == TestCaseCallsOfRun(r)
             IN  /\ Len(fc) <= Len(docs)
                 /\ \A d \in 1..Len(fc) :
                      /\ fc[d].name = Nodes[docs[d]].name
                      /\ fc[d].parent = Null
                 /\ Len(tcs) <= Len(expected)
                 /\ \A k \in 1..Len(tcs) :
                      /\ tcs[k].name = expected[k].name
                      /\ expected[k].doc <= Len(fc)
                      /\ tcs[k].folderId = fc[expected[k].doc].id
                 /\ Completed(r) => Len(fc) = Len(docs) /\ Len(tcs) = Len(expected)
    /\ \A n \in 1..Len(tcCalls) :
         FirstInNewFolder(n) /\ ReturnedTestCase(n) =>
           Methods(CallsOfTestCase(n)) = <<"GET", "POST">>

\* the document with the two scenarios s1 and s2 was processed to the end:
\* one folder was created for it and each of the two lookups created its
\* test case
C17_Witness ==
  /\ SkipConfigured /\ ~PreserveDirStructure
  /\ tree = 1
  /\ run = 1 /\ pc = "done"
  /\ Len(folderCalls) = 1 /\ folderCalls[1].created
  /\ Len(tcCalls) = 2
  /\ Methods(CallsOfTestCase(1)) = <<"GET", "POST">>
  /\ Methods(CallsOfTestCase(2)) = <<"GET", "POST">>

(* ---- C18 ---- *)
RECURSIVE WalkOfEntries(_, _, _, _)
\* the subdirectories and feature files under the entries es[i..] in the
\* order of a depth-first walk that visits a directory before its entries;
\* `up` is the position in the walk of the enclosing subdirectory (0 at the
\* top level) and `base` the number of positions before es[i]
WalkOfEntries(es, i, up, base) ==
  IF i > Len(es) THEN <<>>
  ELSE IF Nodes[es[i]].isDirectory
       THEN LET inside == WalkOfEntries(Nodes[es[i]].entries, 1, base + 1, base + 1)
            IN  <<[node |-> es[i], up |-> up]>> \o inside
                  \o WalkOfEntries(es, i + 1, up, base + 1 + Len(inside))
       ELSE IF EndsWithFeature(Nodes[es[i]].name)
            THEN <<[node |-> es[i], up |-> up]>> \o WalkOfEntries(es, i + 1, up, base + 1)
            ELSE WalkOfEntries(es, i + 1, up, base)
WalkOf == [root \in Roots |-> WalkOfEntries(Nodes[root].entries, 1, 0, 0)]
LocalWalk == WalkOf[tree]

\* C18: with PRESERVE_DIRECTORY_STRUCTURE = true, the getOrCreateFolder
\* calls of a run follow the local tree: one call per subdirectory, made
\* before any call for an entry inside it, and one per document, each with
\* the name of its entry and with the identifier returned for the enclosing
\* subdirectory as parent (the root for top-level entries); a run that
\* processed the whole tree made exactly these calls, and each returned
\* folder is in the catalog under that name and parent.
C18_StructurePreserved ==
  env.preserve = "true" =>
    LET walk == LocalWalk
    IN  \A r \in 1..run :
          LET fc == FolderCallsOfRun(r)
          IN  /\ Len(fc) <= Len(walk)
              /\ \A n \in 1..Len(fc) :
                   /\ fc[n].name = Nodes[walk[n].node].name
                   /\ fc[n].cont = IF Nodes[walk[n].node].isDirectory THEN "dir" ELSE "doc"
                   /\ fc[n].parent = IF walk[n].up = 0 THEN Null ELSE fc[walk[n].up].id
                   /\ walk[n].up # 0 => fc[walk[n].up].returned
                   /\ fc[n].returned =>
                        /\ fc[n].id # Null
                        /\ \E f \in 1..Len(folders) :
                             /\ folders[f].id = fc[n].id
                             /\ folders[f].name = fc[n].name
                             /\ folders[f].parent_id = fc[n].parent
              /\ Completed(r) => Len(fc) = Len(walk)

\* the tree d1/d2/b.feature was processed to the end: the three folders
\* form a chain in the catalog
C18_Witness ==
  /\ env.preserve = "true"
  /\ tree = 9
  /\ pc = "done"
  /\ Len(folderCalls) = 3
  /\ folderCalls[1].name = "d1" /\ folderCalls[1].parent = Null
  /\ folderCalls[2].name = "d2" /\ folderCalls[2].parent = folderCalls[1].id
  /\ folderCalls[3].name = "b.feature" /\ folderCalls[3].parent = folderCalls[2].id
  /\ folderCalls[1].id # folderCalls[2].id

(* ---- C19 ---- *)
\* C19: without PRESERVE_DIRECTORY_STRUCTURE = true, no getOrCreateFolder
\* call is made for a subdirectory and no folder request names a parent
\* other than the one of the top-level walk, the root: every call of a run
\* is the call of a document, and a run that processed the whole tree made
\* one call per document.
C19_FlatModeKeepsParent ==
  env.preserve # "true" =>
    /\ \A n \in 1..Len(folderCalls) :
         folderCalls[n].cont = "doc" /\ folderCalls[n].parent = Null
    /\ \A i \in 1..Len(calls) : calls[i].resource = "folders" => calls[i].id = Null
    /\ LET docs == Documents
       IN  \A r \in 1..run :
             /\ Len(FolderCallsOfRun(r)) <= Len(docs)
             /\ Completed(r) => Len(FolderCallsOfRun(r)) = Len(docs)

\* the document two directories down was processed in flat mode: its
\* folder was created under the root
C19_Witness ==
  /\ env.preserve # "true"
  /\ tree = 9
  /\ pc = "done"
  /\ Len(folderCalls) = 1
  /\ folderCalls[1].name = "b.feature" /\ folderCalls[1].created
  /\ \E f \in 1..Len(folders) :
       folders[f].id = folderCalls[1].id /\ folders[f].parent_id = Null

(* ---- C20 ---- *)
\* C20: with a TEST_CASE_TEMPLATE other than bdd and steps the run issues no
\* request at all: no folder is listed or created before the value is
\* rejected.
C20_InvalidTemplateRejectedAtLoad ==
  env.template \notin {Unset, "bdd", "steps"} => calls = <<>>

(* ------------------------------- C21 ----------------------------------- *)
\* C21: the BDD-shape body of a scenario carries the scenario name unmodified
\* as its name; it has no preconditions field when the background text (the
\* texts of the scenario's Background steps joined by line feeds) is empty, and
\* preconditions equal to "Background: " followed by that text otherwise.
C21_BDDPreconditions ==
  (pc = "built" /\ TestCaseTemplate = "bdd") =>
    /\ payload["name"] = scenario.name
    /\ IF Background(scenario.steps) = <<>>
       THEN "preconditions" \notin DOMAIN payload
       ELSE /\ "preconditions" \in DOMAIN payload
            /\ payload["preconditions"] = <<"Background: ">> \o Background(scenario.steps)

\* a BDD body was built for a scenario with two Background steps, the second
\* one with a text: the preconditions carry the joined text
C21_Witness ==
  /\ pc = "built"
  /\ TestCaseTemplate = "bdd"
  /\ Len(BackgroundSteps(scenario.steps)) = 2
  /\ Background(scenario.steps) = <<Lf, "a">>
  /\ payload["preconditions"] = <<"Background: ", Lf, "a">>

(* ------------------------------- C22 ----------------------------------- *)
Terminated == pc \in {"done", "failed"}

\* C22: when every request is answered (by a response or a failure) and every
\* folder listing ends after finitely many pages, a run that was started
\* eventually completes or aborts on a failure: it is never left waiting and
\* does not page for ever.
C22_Termination == (~Terminated) ~> Terminated

\* a run completed after it went through a folder listing of several pages,
\* the creation of a folder and the settling delay
C22_Witness ==
  /\ pc = "done"
  /\ \E n \in 1..Len(folderCalls) :
       /\ folderCalls[n].created
       /\ folderCalls[n].returned
       /\ Len(SelectSeq(CallsOfFolder(n), LAMBDA c : c.method = "GET")) >= 2

(* ------------------------------- C23 ----------------------------------- *)
NoDuplicateTitles ==
  \A i, j \in 1..Len(testCases) :
    i # j => ~(testCases[i].title = testCases[j].title
               /\ testCases[i].folder_id = testCases[j].folder_id)
TestCaseListingsWellFormed ==
  \A i \in 1..Len(calls) :
    calls[i].method = "GET" /\ calls[i].resource = "test-cases" => calls[i].status # "malformed"
ThreePolicies == UserOption \in {"skip", "update", "delete"}

FailedDeletes == {i \in 1..Len(calls) : calls[i].method = "DELETE" /\ calls[i].status = "fail"}

\* C24: under policy delete, when the DELETE of an existing test case fails,
\* it is the last request of the run: no recreation POST follows for that
\* scenario, the test case is still in the catalog, and the run has ended
\* with the error of the failure.
C24_FailedDeleteKeepsTestCase ==
  UserOption = "delete" =>
    \A i \in FailedDeletes :
      /\ i = Len(calls)
      /\ ~\E j \in 1..Len(calls) :
            calls[j].of = calls[i].of /\ calls[j].resource = "test-cases" /\ calls[j].method = "POST"
      /\ \E t \in 1..Len(testCases) :
            /\ testCases[t].identifier = calls[i].id
            /\ testCases[t] = tcCalls[calls[i].of].existing
      /\ pc = "failed"
      /\ error = "transport"

\* the DELETE of the catalog's test case s1 failed
C24_Witness ==
  /\ UserOption = "delete"
  /\ FailedDeletes # {}
  /\ pc = "failed"
  /\ \E t \in 1..Len(testCases) : testCases[t].identifier = LastCall.id

(* ------------------------------- C25 ----------------------------------- *)
Identifiers(tcs) == {tcs[i].identifier : i \in 1..Len(tcs)}
\* every folder of `before` is in `after`, with its name and its parent
FoldersKept(before, after) ==
  /\ Len(before) <= Len(after)
  /\ \A i \in 1..Len(before) : after[i] = before[i]
\* no step removes, renames or re-parents a folder; under policy skip or
\* update no step removes a test-case identifier
OnlyDeleteRemoves ==
  /\ FoldersKept(folders, folders')
  /\ \A i \in 1..Len(calls') : calls'[i].resource = "folders" => calls'[i].method \in {"GET", "POST"}
  /\ UserOption \in {"skip", "update"} => Identifiers(testCases) \subseteq Identifiers(testCases')

\* C25: no step of a run deletes, renames or re-parents a remote folder (the
\* only folder request besides the listing is the creation), and under policy
\* skip or update every step keeps the test-case identifiers present before
\* it, so those present at the start of a run are present at its end.
C25_OnlyDeleteRemoves == [][OnlyDeleteRemoves]_vars

\* a run under policy update ended after a folder was created and a test
\* case was patched: the catalog's first test case is still there
C25_Witness ==
  /\ UserOption = "update"
  /\ pc = "done"
  /\ \E n \in 1..Len(folderCalls) : folderCalls[n].created
  /\ \E i \in 1..Len(calls) : calls[i].method = "PATCH" /\ calls[i].status = "ok"
  /\ 1 \in Identifiers(testCases)

(* ------------------------------- C26 ----------------------------------- *)
\* the distinct file base names of the documents of each local tree
BaseNamesOf ==
  [root \in Roots |-> {Nodes[DocumentsOf[root][d]].name : d \in 1..Len(DocumentsOf[root])}]
\* the getOrCreateFolder calls of run r that created a folder
CreatedInRun(r) == {n \in 1..Len(folderCalls) : folderCalls[n].run = r /\ folderCalls[n].created}
\* in each run, a call for a name an earlier call of the run returned a folder
\* for returns that folder and creates nothing, and the run creates at most
\* one folder per distinct document base name
SharedByBaseName ==
  \A r \in 1..run :
    /\ \A n, m \in 1..Len(folderCalls) :
         (/\ n < m
          /\ folderCalls[n].run = r /\ folderCalls[m].run = r
          /\ folderCalls[n].name = folderCalls[m].name
          /\ folderCalls[n].returned /\ folderCalls[m].returned)
         => /\ folderCalls[m].id = folderCalls[n].id
            /\ ~folderCalls[m].created
    /\ Cardinality(CreatedInRun(r)) <= Cardinality(BaseNamesOf[tree])

\* C26 as stated: in flat mode two documents of one base name resolve to one
\* remote folder and a run creates at most one folder per distinct base name,
\* however late a created folder becomes visible in the listing; the
\* catalog's listings are taken to carry their collections and the settling
\* delay to be positive.
C26_FlatModeSharesFolder ==
  (env.preserve # "true" /\ FolderListingsWellFormed /\ FolderCreationDelay > 0) =>
    SharedByBaseName

\* C26, amended: in flat mode, provided every created folder is listed within
\* folderCreationDelay of its creation and every folder-listing response
\* carries its folder collection, the second getOrCreateFolder call for a base
\* name returns the folder ensured for the first and creates nothing, and a
\* run creates at most as many folders as the tree has distinct document base
\* names.
C26_FlatModeSharesFolderWhenSettled ==
  (env.preserve # "true" /\ SettlesInTime /\ FolderListingsWellFormed) =>
    SharedByBaseName

\* d1/a.feature and d2/a.feature were processed in flat mode on a catalog
\* that lists a new folder only after a while: the first call created the
\* folder a.feature, the second returned it
C26_Witness ==
  /\ env.preserve # "true" /\ SettlesInTime /\ FolderListingsWellFormed
  /\ lag > 0
  /\ tree = 3
  /\ pc = "done"
  /\ run = 1
  /\ Len(folderCalls) = 2
  /\ folderCalls[1].created
  /\ ~folderCalls[2].created
  /\ folderCalls[2].id = folderCalls[1].id
  /\ Cardinality(BaseNamesOf[tree]) = 1
====
